---- MODULE Spec2Model ----
(***************************************************************************)
(* Dashboard / analytics engine of the AgroAI backend (src/backend/app.py) *)
(* over the MongoDB record store it queries.                               *)
(*                                                                         *)
(* Representation of Python / BSON values:                                 *)
(*   - a document (dict) is a TLA+ record whose DOMAIN is the set of keys  *)
(*     the document carries; dict.get(k, d) is Get / GetRaw below;         *)
(*   - a value that may be Python None is an "optional": None is <<>> and  *)
(*     a value v is <<v>> (Some(v));                                       *)
(*   - a location string is a sequence of one-character strings, so that   *)
(*     str.lower() and the substring test are computed, not assumed;       *)
(*   - confidence 0.70 is the integer 70 (hundredths); a datetime is an    *)
(*     integer count of ticks, TicksPerMonth ticks to a month and          *)
(*     MonthsPerYear months to a year;                                     *)
(*   - round(x, 2), round(x, 1), round(x, 0) of a quotient are the integer *)
(*     number of hundredths, tenths, units (RoundHalfEven).                *)
(*   - soil_parameters / weather_parameters of a detailed record and the   *)
(*     name / email / password of a user are written but read by none of   *)
(*     the modelled handlers; they are left out of the documents.          *)
(***************************************************************************)
EXTENDS Integers, Sequences, FiniteSets, TLC

\* ---------------------------------------------------------------- bounds
MaxUsers == 2
\* caps on the number of records ever inserted, per specification
MaxRecords == 2
MaxHistory == 3
MaxRecent == 11
MaxPage == 3
MaxLimit == 2
TicksPerMonth == 1
\* number of requests a process serves at the same time
MaxRequests == 2
\* the clock runs over the last tick of year 0 and the first Horizon ticks of year 1
Horizon == 1

\* ------------------------------------------------------ program constants
MonthsPerYear == 12
ConfidenceThreshold == 70
RevenuePerUnit == 20
RecentLimit == 10
PricePerKg == 25

VARIABLES users, tokens, predictions, nextId, now, resp,
          models_loaded, loads, inflight

vars == <<users, tokens, predictions, nextId, now, resp, models_loaded, loads, inflight>>

\* ------------------------------------------------------- value helpers
None == <<>>
Some(v) == <<v>>
Guest == 0
UserIds == 1..MaxUsers

Max(a, b) == IF a >= b THEN a ELSE b
Min(a, b) == IF a <= b THEN a ELSE b

\* dict.get(k, d) for a key whose value is an optional
Get(doc, k, d) == IF k \in DOMAIN doc THEN doc[k] ELSE Some(d)
\* dict.get(k, d) for a key whose value is never None
GetRaw(doc, k, d) == IF k \in DOMAIN doc THEN doc[k] ELSE d

\* Python round(num / den, digits) with the scale folded into num:
\* the integer nearest to num / den, ties to the even neighbour.
RoundHalfEven(num, den) ==
    LET q == num \div den
        r == num % den
    IN  IF 2 * r < den THEN q
        ELSE IF 2 * r > den THEN q + 1
        ELSE IF q % 2 = 0 THEN q ELSE q + 1

RECURSIVE SumSeq(_)
SumSeq(s) == IF s = <<>> THEN 0 ELSE Head(s) + SumSeq(Tail(s))

SeqToSet(s) == {s[i] : i \in 1..Len(s)}

\* ------------------------------------------------------------- calendar
TicksPerYear == MonthsPerYear * TicksPerMonth
YearOf(t) == t \div TicksPerYear
MonthOf(t) == ((t % TicksPerYear) \div TicksPerMonth) + 1
\* datetime(year, month, 1)
DateTime(year, month) == year * TicksPerYear + (month - 1) * TicksPerMonth

StartTime == MonthsPerYear * TicksPerMonth - 1
MaxTime == StartTime + Horizon

\* ------------------------------------------------- record store (MongoDB)
\* find(query).sort('created_at', -1): a stable insertion sort, so records
\* with equal created_at keep their natural (insertion) order.
RECURSIVE InsertDesc(_, _)
InsertDesc(d, s) ==
    IF s = <<>> THEN <<d>>
    ELSE IF Head(s).created_at >= d.created_at
         THEN <<Head(s)>> \o InsertDesc(d, Tail(s))
         ELSE <<d>> \o s

RECURSIVE SortDesc(_)
SortDesc(s) ==
    IF s = <<>> THEN <<>>
    ELSE InsertDesc(s[Len(s)], SortDesc(SubSeq(s, 1, Len(s) - 1)))

\* mutation: the owner predicate dropped from the query
OwnedByAnyone(u) == predictions

\* {'user_id': ObjectId(user_id)}
OwnedBy(u) == SelectSeq(predictions, LAMBDA d : d.user_id = u)

\* cursor.skip(n).limit(m)
SkipLimit(s, n, m) == SubSeq(s, n + 1, Min(Len(s), n + m))

\* '$output_data.confidence' >= 0.70 ; a missing path never matches
\* mutation: the confidence of a detailed record's result counted as well
HighConfidenceAnywhere(d) ==
    \/ /\ "output_data" \in DOMAIN d
       /\ "confidence" \in DOMAIN d.output_data
       /\ d.output_data.confidence >= ConfidenceThreshold
    \/ /\ "prediction_result" \in DOMAIN d
       /\ "confidence" \in DOMAIN d.prediction_result
       /\ d.prediction_result.confidence >= ConfidenceThreshold

\* {'$match': {'output_data.confidence': {'$gte': 0.70}}}
HighConfidence(d) ==
    /\ "output_data" \in DOMAIN d
    /\ "confidence" \in DOMAIN d.output_data
    /\ d.output_data.confidence >= ConfidenceThreshold

\* '$avg' of '$output_data.yield' over a sequence of yield records, as the
\* pair <<sum, count>> of the numeric values it averages
YieldValues(s) ==
    LET ys == SelectSeq(s, LAMBDA d : /\ "output_data" \in DOMAIN d
                                      /\ "yield" \in DOMAIN d.output_data)
    IN  [i \in 1..Len(ys) |-> ys[i].output_data.yield]

\* db['predictions'].insert_one(doc) with created_at = datetime.utcnow()
InsertOne(doc) == Append(predictions, doc)
\* mutation: $inc by two
UpdateCounterTwice(u) ==
    IF u \in DOMAIN users
    THEN [users EXCEPT ![u].total_predictions = @ + 2]
    ELSE users

\* users.update_one({'_id': user_id}, {'$inc': {'total_predictions': 1}})
UpdateCounter(u) ==
    IF u \in DOMAIN users
    THEN [users EXCEPT ![u].total_predictions = @ + 1]
    ELSE users

\* ------------------------------------------- Prediction Service outcomes
YieldOutcomes ==
    { [yield |-> 1500, confidence |-> 92, model_type |-> "trained"],
      [yield |-> 4501, confidence |-> 85, model_type |-> "trained"] }
CropOutcomes ==
    { [crop |-> "rice", confidence |-> 50, model_type |-> "trained"],
      [crop |-> "wheat", confidence |-> 70, model_type |-> "mock"] }
RiskOutcomes ==
    { [risk_level |-> "High", confidence |-> 60, model_type |-> "trained"] }

\* the last HTTP exchange: the handler called, its inputs, jsonify(body), status
Reply(op, args, status, body) ==
    [op |-> op, args |-> args, status |-> status, body |-> body]
Error(op, args, status, msg) == Reply(op, args, status, [error |-> msg])

\* ------------------------------------------------------------ documents
BasicDoc(id, u, kind, out, t) ==
    [_id |-> id, user_id |-> u, prediction_type |-> kind,
     input_data |-> "features",
     output_data |-> out,
     model_type |-> "trained",
     created_at |-> t]

YieldDoc(id, u, o, t) ==
    [BasicDoc(id, u, "yield",
              [yield |-> o.yield, confidence |-> o.confidence], t)
        EXCEPT !.model_type = o.model_type]
CropDoc(id, u, o, t) ==
    [BasicDoc(id, u, "crop",
              [crop |-> o.crop, confidence |-> o.confidence], t)
        EXCEPT !.model_type = o.model_type]
RiskDoc(id, u, o, t) ==
    [BasicDoc(id, u, "risk",
              [risk_level |-> o.risk_level, confidence |-> o.confidence], t)
        EXCEPT !.model_type = o.model_type]

\* save_detailed_prediction's prediction_doc: every key is written, with
\* data.get(k) = None for a key the request omits; prediction_result is
\* data.get('result', {}).
DetailedDoc(id, u, data, t) ==
    [_id |-> id, user_id |-> u, prediction_type |-> "yield_detailed",
     crop_type |-> IF "cropType" \in DOMAIN data THEN Some(data.cropType) ELSE None,
     season |-> IF "season" \in DOMAIN data THEN Some(data.season) ELSE None,
     location |-> IF "location" \in DOMAIN data THEN Some(data.location) ELSE None,
     region |-> IF "region" \in DOMAIN data THEN Some(data.region) ELSE None,
     land_area |-> IF "landArea" \in DOMAIN data THEN Some(data.landArea) ELSE None,
     land_area_unit |-> IF "landAreaUnit" \in DOMAIN data THEN Some(data.landAreaUnit) ELSE None,
     prediction_result |-> IF "result" \in DOMAIN data THEN data.result ELSE <<>>,
     created_at |-> t]

NoReply == Reply("none", <<>>, 0, <<>>)

\* ------------------------------------------------------ write operations
\* resp is the reply produced by the latest step; a step that handles no
\* request (the clock) leaves none.
\* the requests a process serves at the same time, each at a position of
\* its handler with the caller's identity and the prediction it computed
Requests == 1..MaxRequests
Idle == [pc |-> "idle", op |-> "none", user_id |-> Guest,
         out |-> [yield |-> 0, confidence |-> 0, model_type |-> "mock"],
         inserted_id |-> 0]

\* models_loaded = False at module level: under a WSGI server the module is
\* imported and the startup call of load_models under __main__ does not run
Init ==
    /\ users = <<>>
    /\ tokens = {}
    /\ predictions = <<>>
    /\ nextId = 1
    /\ now = StartTime
    /\ resp = NoReply
    /\ models_loaded = FALSE
    /\ loads = 0
    /\ inflight = [r \in Requests |-> Idle]

Tick ==
    /\ now < MaxTime
    /\ now' = now + 1
    /\ resp' = NoReply
    /\ UNCHANGED <<users, tokens, predictions, nextId, models_loaded, loads, inflight>>

\* hash_password / check_password: the stored hash verifies exactly the
\* password it was made from
HashPassword(pw) == [hashed |-> pw]
CheckPassword(hash, pw) == hash = HashPassword(pw)

\* register's user_doc; user u signs up as "A" with the address u and the
\* password "p0", and total_predictions counts from the first $inc
UserDoc(u) ==
    [name |-> "A", email |-> u, password_hash |-> HashPassword("p0"),
     total_predictions |-> 0]

register(u, valid) ==
    /\ u \notin tokens
    /\ u = Cardinality(tokens) + 1
    /\ IF ~valid
       THEN /\ resp' = Error("register", <<>>, 400, "field is required")
            /\ UNCHANGED <<users, tokens>>
       ELSE IF \E v \in DOMAIN users : users[v].email = u
       THEN /\ resp' = Error("register", <<>>, 400, "Email already registered")
            /\ UNCHANGED <<users, tokens>>
       ELSE /\ users' = [v \in DOMAIN users \cup {u} |->
                            IF v = u THEN UserDoc(u) ELSE users[v]]
            /\ tokens' = tokens \cup {u}
            /\ resp' = Reply("register", [user_id |-> u], 201,
                              [message |-> "Registration successful"])
    /\ UNCHANGED <<predictions, nextId, now, models_loaded, loads, inflight>>

\* data is the JSON body: a record holding the keys the request carries
update_profile(u, data) ==
    /\ u \in tokens
    /\ LET op == "update_profile"
           a == [user_id |-> u]
           fields == DOMAIN data \cap {"name", "email"}
       IN  IF u \notin DOMAIN users
           THEN /\ resp' = Error(op, a, 404, "User not found")
                /\ UNCHANGED users
           ELSE IF /\ "email" \in DOMAIN data
                   /\ \E v \in DOMAIN users : users[v].email = data.email /\ v # u
           THEN /\ resp' = Error(op, a, 400, "Email already in use")
                /\ UNCHANGED users
           ELSE IF fields = {}
           THEN /\ resp' = Error(op, a, 400, "No fields to update")
                /\ UNCHANGED users
           ELSE /\ users' = [users EXCEPT ![u] =
                                [k \in DOMAIN @ |-> IF k \in fields THEN data[k] ELSE @[k]]]
                /\ resp' = Reply(op, a, 200, [message |-> "Profile updated successfully"])
    /\ UNCHANGED <<tokens, predictions, nextId, now, models_loaded, loads, inflight>>

\* old_password and new_password are None when the body omits them
change_password(u, old_password, new_password) ==
    /\ u \in tokens
    /\ LET op == "change_password"
           a == [user_id |-> u]
       IN  IF old_password = None \/ new_password = None
           THEN /\ resp' = Error(op, a, 400, "Old and new password required")
                /\ UNCHANGED users
           ELSE IF u \notin DOMAIN users
           THEN /\ resp' = Error(op, a, 404, "User not found")
                /\ UNCHANGED users
           ELSE IF ~CheckPassword(users[u].password_hash, old_password[1])
           THEN /\ resp' = Error(op, a, 401, "Invalid old password")
                /\ UNCHANGED users
           ELSE /\ users' = [users EXCEPT ![u].password_hash =
                                              HashPassword(new_password[1])]
                /\ resp' = Reply(op, a, 200, [message |-> "Password changed successfully"])
    /\ UNCHANGED <<tokens, predictions, nextId, now, models_loaded, loads, inflight>>

\* mutation: delete_many without the owner condition
delete_account_everyone(u) ==
    /\ u \in tokens
    /\ IF u \notin DOMAIN users
       THEN /\ resp' = Error("delete_account", [user_id |-> u], 404, "User not found")
            /\ UNCHANGED <<users, predictions>>
       ELSE /\ users' = [v \in DOMAIN users \ {u} |-> users[v]]
            /\ predictions' = <<>>
            /\ resp' = Reply("delete_account", [user_id |-> u], 200,
                              [message |-> "Account deleted successfully"])
    /\ UNCHANGED <<tokens, nextId, now, models_loaded, loads, inflight>>

delete_account(u) ==
    /\ u \in tokens
    /\ IF u \notin DOMAIN users
       THEN /\ resp' = Error("delete_account", [user_id |-> u], 404, "User not found")
            /\ UNCHANGED <<users, predictions>>
       ELSE /\ users' = [v \in DOMAIN users \ {u} |-> users[v]]
            /\ predictions' = SelectSeq(predictions, LAMBDA d : d.user_id # u)
            /\ resp' = Reply("delete_account", [user_id |-> u], 200,
                              [message |-> "Account deleted successfully"])
    /\ UNCHANGED <<tokens, nextId, now, models_loaded, loads, inflight>>

\* the shared tail of predict_yield / predict_crop / predict_risk:
\* insert_one(prediction_doc), then update_one($inc total_predictions)
SavePrediction(op, caller, doc, body) ==
    IF caller = Guest
    THEN /\ resp' = Reply(op, [user_id |-> caller], 200, [body EXCEPT !.saved = FALSE])
         /\ UNCHANGED <<users, predictions, nextId>>
    ELSE /\ predictions' = InsertOne(doc)
         /\ users' = UpdateCounter(caller)
         /\ nextId' = nextId + 1
         /\ resp' = Reply(op, [user_id |-> caller], 200, [body EXCEPT !.saved = TRUE])

\* load_models: every joblib.load is tried, then models_loaded = True
\* "regardless of which ones succeeded"; loads counts the runs
load_models ==
    /\ models_loaded' = TRUE
    /\ loads' = loads + 1

\* if not models_loaded: load_models()
LazyLoad ==
    IF ~models_loaded THEN load_models ELSE UNCHANGED <<models_loaded, loads>>

predict_yield(caller, o) ==
    /\ caller \in tokens \cup {Guest}
    /\ SavePrediction("predict_yield", caller, YieldDoc(nextId, caller, o, now),
                      [yield |-> o.yield, confidence |-> o.confidence, saved |-> FALSE])
    /\ LazyLoad
    /\ UNCHANGED <<tokens, now, inflight>>

predict_crop(caller, o) ==
    /\ caller \in tokens \cup {Guest}
    /\ SavePrediction("predict_crop", caller, CropDoc(nextId, caller, o, now),
                      [recommended_crop |-> o.crop, confidence |-> o.confidence, saved |-> FALSE])
    /\ LazyLoad
    /\ UNCHANGED <<tokens, now, inflight>>

predict_risk(caller, o) ==
    /\ caller \in tokens \cup {Guest}
    /\ SavePrediction("predict_risk", caller, RiskDoc(nextId, caller, o, now),
                      [risk_level |-> o.risk_level, confidence |-> o.confidence, saved |-> FALSE])
    /\ LazyLoad
    /\ UNCHANGED <<tokens, now, inflight>>

save_detailed_prediction(u, data) ==
    /\ u \in tokens
    /\ predictions' = InsertOne(DetailedDoc(nextId, u, data, now))
    /\ users' = UpdateCounter(u)
    /\ nextId' = nextId + 1
    /\ resp' = Reply("save_detailed_prediction", [user_id |-> u], 201,
                   [success |-> TRUE, prediction_id |-> nextId])
    /\ UNCHANGED <<tokens, now, models_loaded, loads, inflight>>

\* ---- the same handlers step by step, as concurrent requests run them
\* predict_yield up to its check of the flag: "if not models_loaded"
predict_yield_enter(r, caller) ==
    /\ inflight[r].pc = "idle"
    /\ caller \in tokens \cup {Guest}
    /\ inflight' = [inflight EXCEPT ![r] =
                       [Idle EXCEPT !.pc = IF models_loaded THEN "ready" ELSE "load",
                                    !.op = "predict_yield",
                                    !.user_id = caller]]
    /\ UNCHANGED <<users, tokens, predictions, nextId, now, resp, models_loaded, loads>>

\* the call of load_models by a request that read the flag as False
predict_yield_load(r) ==
    /\ inflight[r].pc = "load"
    /\ load_models
    /\ inflight' = [inflight EXCEPT ![r].pc = "ready"]
    /\ UNCHANGED <<users, tokens, predictions, nextId, now, resp>>

\* the prediction and, for a logged-in caller, insert_one; a guest is
\* answered at once with saved = False
predict_yield_insert(r, o) ==
    /\ inflight[r].pc = "ready"
    /\ IF inflight[r].user_id = Guest
       THEN /\ resp' = Reply("predict_yield", [user_id |-> Guest], 200,
                             [yield |-> o.yield, confidence |-> o.confidence,
                              saved |-> FALSE])
            /\ inflight' = [inflight EXCEPT ![r] = Idle]
            /\ UNCHANGED <<predictions, nextId>>
       ELSE /\ predictions' = InsertOne(YieldDoc(nextId, inflight[r].user_id, o, now))
            /\ nextId' = nextId + 1
            /\ inflight' = [inflight EXCEPT ![r].pc = "inserted", ![r].out = o,
                                            ![r].inserted_id = nextId]
            /\ UNCHANGED resp
    /\ UNCHANGED <<users, tokens, now, models_loaded, loads>>

\* save_detailed_prediction up to and including insert_one
save_detailed_insert(r, u, data) ==
    /\ inflight[r].pc = "idle"
    /\ u \in tokens
    /\ predictions' = InsertOne(DetailedDoc(nextId, u, data, now))
    /\ nextId' = nextId + 1
    /\ inflight' = [inflight EXCEPT ![r] =
                       [Idle EXCEPT !.pc = "inserted",
                                    !.op = "save_detailed_prediction",
                                    !.user_id = u,
                                    !.inserted_id = nextId]]
    /\ UNCHANGED <<users, tokens, now, resp, models_loaded, loads>>

\* the second step of a save: update_one with $inc, then the reply
update_counter(r) ==
    /\ inflight[r].pc = "inserted"
    /\ users' = UpdateCounter(inflight[r].user_id)
    /\ resp' = IF inflight[r].op = "predict_yield"
               THEN Reply("predict_yield", [user_id |-> inflight[r].user_id], 200,
                          [yield |-> inflight[r].out.yield,
                           confidence |-> inflight[r].out.confidence,
                           saved |-> TRUE])
               ELSE Reply("save_detailed_prediction",
                          [user_id |-> inflight[r].user_id], 201,
                          [success |-> TRUE, prediction_id |-> inflight[r].inserted_id])
    /\ inflight' = [inflight EXCEPT ![r] = Idle]
    /\ UNCHANGED <<tokens, predictions, nextId, now, models_loaded, loads>>

\* the save interrupted between its two steps: update_one raises, the
\* blanket except answers 500 and the inserted record stays uncounted
update_fails(r) ==
    /\ inflight[r].pc = "inserted"
    /\ resp' = Error(inflight[r].op, [user_id |-> inflight[r].user_id], 500,
                     "Exception")
    /\ inflight' = [inflight EXCEPT ![r].pc = "failed"]
    /\ UNCHANGED <<users, tokens, predictions, nextId, now, models_loaded, loads>>

\* ------------------------------------------------------------ dashboards
OfKind(s, kind) == SelectSeq(s, LAMBDA d : d.prediction_type = kind)
CountHigh(s) == Len(SelectSeq(s, HighConfidence))

\* the statistics get_aggregate_dashboard extracts from its $facet result
\* success_rate = high_conf_count / total * 100 if total > 0 else 0, reported
\* as round(success_rate, 0)
AggregateSuccessRate(s) ==
    IF Len(s) > 0 THEN RoundHalfEven(CountHigh(s) * 100, Len(s)) ELSE 0

\* mutation: active_farmers counting every account ever registered
AggregateStatsEverRegistered ==
    LET total_predictions == Len(predictions)
        yv == YieldValues(OfKind(predictions, "yield"))
        high_conf_count == CountHigh(predictions)
    IN  [type |-> "aggregate",
         total_predictions |-> total_predictions,
         avg_yield |-> IF OfKind(predictions, "yield") # <<>>
                       THEN RoundHalfEven(100 * SumSeq(yv), Len(yv)) ELSE 0,
         success_rate |-> IF total_predictions > 0
                          THEN RoundHalfEven(high_conf_count * 100, total_predictions)
                          ELSE 0,
         active_farmers |-> Cardinality(tokens)]

AggregateStats ==
    LET total_predictions == Len(predictions)
        yv == YieldValues(OfKind(predictions, "yield"))
    IN  [type |-> "aggregate",
         total_predictions |-> total_predictions,
         avg_yield |-> IF OfKind(predictions, "yield") # <<>>
                       THEN RoundHalfEven(100 * SumSeq(yv), Len(yv)) ELSE 0,
         success_rate |-> AggregateSuccessRate(predictions),
         active_farmers |-> Cardinality(DOMAIN users)]

\* round(None, 2): a yield group whose $avg found no numeric value
AggregateRaises ==
    /\ OfKind(predictions, "yield") # <<>>
    /\ YieldValues(OfKind(predictions, "yield")) = <<>>

get_aggregate_dashboard ==
    /\ resp' = IF AggregateRaises
               THEN Error("get_aggregate_dashboard", <<>>, 500, "TypeError")
               ELSE Reply("get_aggregate_dashboard", <<>>, 200, AggregateStats)
    /\ UNCHANGED <<users, tokens, predictions, nextId, now, models_loaded, loads, inflight>>

\* prediction_to_dict over the $project of the recent_10 facet
RecentEntry(d) ==
    LET base == [id |-> d._id, prediction_type |-> d.prediction_type,
                 created_at |-> d.created_at]
    IN  IF "output_data" \in DOMAIN d
        THEN [k \in DOMAIN base \cup {"output_data"} |->
                 IF k = "output_data" THEN d.output_data ELSE base[k]]
        ELSE base

\* mutation: a year window opening a year early
YearStartLastYear(t) == DateTime(YearOf(t) - 1, 1)

YearStart(t) == DateTime(YearOf(t), 1)

\* the crop_distribution facet as the dict {crop: count}
CropDistribution(s) ==
    LET cs == OfKind(s, "crop")
    IN  [c \in {cs[i].output_data.crop : i \in 1..Len(cs)} |->
            Len(SelectSeq(cs, LAMBDA d : d.output_data.crop = c))]

\* mutation: the distribution without its $sort stage
TopCropsUnsorted(dist) ==
    IF DOMAIN dist = {} THEN {"N/A"} ELSE DOMAIN dist

\* the _id values the {'$sort': {'count': -1}} stage may put first
TopCrops(dist) ==
    IF DOMAIN dist = {} THEN {"N/A"}
    ELSE {c \in DOMAIN dist : \A e \in DOMAIN dist : dist[c] >= dist[e]}

\* success_rate = success_count / total_year * 100 if total_year > 0 else 0,
\* reported as round(success_rate, 1), over the records of the year window
PersonalSuccessRate(inYear) ==
    IF Len(inYear) > 0 THEN RoundHalfEven(CountHigh(inYear) * 1000, Len(inYear)) ELSE 0

\* mutation: the facet without its $sort stage
recent_10_unsorted(owned) == SkipLimit(owned, 0, RecentLimit)

\* the recent_10 facet: $sort created_at descending, $limit 10
recent_10(owned) == SkipLimit(SortDesc(owned), 0, RecentLimit)

PersonalStats(user_id, top_crop) ==
    LET owned == OwnedBy(user_id)
        year_start == YearStart(now)
        inYear == SelectSeq(owned, LAMBDA d : d.created_at >= year_start)
        total_year == Len(inYear)
        yv == YieldValues(OfKind(inYear, "yield"))
        avg_yield == IF Len(yv) > 0 /\ SumSeq(yv) # 0
                     THEN RoundHalfEven(100 * SumSeq(yv), Len(yv)) ELSE 0
        crop_recommendations == CropDistribution(inYear)
        recent == recent_10(owned)
    IN  [type |-> "personal",
         year_summary |->
            [year |-> YearOf(now),
             total_predictions |-> total_year,
             yield_predictions |-> Len(OfKind(inYear, "yield")),
             crop_predictions |-> Len(OfKind(inYear, "crop")),
             risk_predictions |-> Len(OfKind(inYear, "risk"))],
         statistics |->
            [avg_yield |-> avg_yield,
             top_crop |-> top_crop,
             crop_count |-> Cardinality(DOMAIN crop_recommendations),
             success_rate |-> PersonalSuccessRate(inYear),
             total_predictions_all_time |-> Len(owned)],
         crop_recommendations |-> crop_recommendations,
         recent_predictions |-> [i \in 1..Len(recent) |-> RecentEntry(recent[i])]]

\* the answers get_personal_dashboard can give in the current state, one
\* for each crop the $sort may put first
PersonalReplies(user_id) ==
    IF user_id \notin DOMAIN users
    THEN {Error("get_personal_dashboard", [user_id |-> user_id],
                404, "User not found")}
    ELSE {Reply("get_personal_dashboard", [user_id |-> user_id],
                200, PersonalStats(user_id, top_crop)) :
             top_crop \in TopCrops(CropDistribution(
                 SelectSeq(OwnedBy(user_id),
                           LAMBDA d : d.created_at >= YearStart(now))))}

\* mutation: the find_one / "User not found" guard removed
get_personal_dashboard_unguarded(user_id) ==
    /\ \E top_crop \in TopCrops(CropDistribution(
                 SelectSeq(OwnedBy(user_id),
                           LAMBDA d : d.created_at >= YearStart(now)))) :
            resp' = Reply("get_personal_dashboard", [user_id |-> user_id],
                          200, PersonalStats(user_id, top_crop))
    /\ UNCHANGED <<users, tokens, predictions, nextId, now, models_loaded, loads, inflight>>

get_personal_dashboard(user_id) ==
    /\ resp' \in PersonalReplies(user_id)
    /\ UNCHANGED <<users, tokens, predictions, nextId, now, models_loaded, loads, inflight>>

get_dashboard_stats(caller) ==
    /\ caller \in tokens \cup {Guest}
    /\ IF caller # Guest
       THEN get_personal_dashboard(caller)
       ELSE get_aggregate_dashboard

\* ------------------------------------------------------------ filtering
UpperCase == <<"A", "B", "C", "D", "E", "F", "G", "H", "I", "J", "K", "L", "M",
               "N", "O", "P", "Q", "R", "S", "T", "U", "V", "W", "X", "Y", "Z">>
LowerCase == <<"a", "b", "c", "d", "e", "f", "g", "h", "i", "j", "k", "l", "m",
               "n", "o", "p", "q", "r", "s", "t", "u", "v", "w", "x", "y", "z">>
LowerChar(c) ==
    IF \E i \in 1..Len(UpperCase) : UpperCase[i] = c
    THEN LowerCase[CHOOSE i \in 1..Len(UpperCase) : UpperCase[i] = c]
    ELSE c
\* str.lower()
Lower(str) == [i \in 1..Len(str) |-> LowerChar(str[i])]
\* a in b, for strings
Contains(b, a) ==
    \E i \in 0..(Len(b) - Len(a)) : SubSeq(b, i + 1, i + Len(a)) = a

Unknown == <<"U", "n", "k", "n", "o", "w", "n">>
VariousLocations == <<"V", "a", "r", "i", "o", "u", "s", " ",
                      "L", "o", "c", "a", "t", "i", "o", "n", "s">>

\* mutation: the yield * 20 estimate applied to every record
NormalizeEstimateAlways(pred) ==
    LET result == GetRaw(pred, "prediction_result", <<>>)
        yield == IF "output_data" \in DOMAIN pred
                 THEN GetRaw(pred.output_data, "yield", 0)
                 ELSE GetRaw(result, "yield", 0)
    IN  [crop_type |-> Get(pred, "crop_type", "Mixed"),
         season |-> Get(pred, "season", "All Seasons"),
         location |-> Get(pred, "location", VariousLocations),
         region |-> Get(pred, "region", "Multiple Regions"),
         land_area |-> Some(1),
         land_area_unit |-> Some("acre"),
         yield |-> yield,
         revenue |-> yield * RevenuePerUnit,
         confidence |-> IF "output_data" \in DOMAIN pred
                        THEN GetRaw(pred.output_data, "confidence", 0)
                        ELSE GetRaw(result, "confidence", 0)]

\* the per-record normalization of get_predictions_with_filters
Normalize(pred) ==
    LET prediction_type == GetRaw(pred, "prediction_type", "")
        result == GetRaw(pred, "prediction_result", <<>>)
    IN  IF prediction_type = "yield_detailed"
        THEN [crop_type |-> Get(pred, "crop_type", "Unknown"),
              season |-> Get(pred, "season", "Unknown"),
              location |-> Get(pred, "location", Unknown),
              region |-> Get(pred, "region", "Unknown"),
              land_area |-> Get(pred, "land_area", 0),
              land_area_unit |-> Get(pred, "land_area_unit", "acres"),
              yield |-> GetRaw(result, "yield", 0),
              revenue |-> GetRaw(result, "revenue", 0),
              confidence |-> GetRaw(result, "confidence", 0)]
        ELSE [crop_type |-> Get(pred, "crop_type", "Mixed"),
              season |-> Get(pred, "season", "All Seasons"),
              location |-> Get(pred, "location", VariousLocations),
              region |-> Get(pred, "region", "Multiple Regions"),
              land_area |-> Some(1),
              land_area_unit |-> Some("acre"),
              yield |-> IF "output_data" \in DOMAIN pred
                        THEN GetRaw(pred.output_data, "yield", 0)
                        ELSE GetRaw(result, "yield", 0),
              revenue |-> IF "output_data" \in DOMAIN pred
                          THEN GetRaw(pred.output_data, "yield", 0) * RevenuePerUnit
                          ELSE GetRaw(result, "revenue", 0),
              confidence |-> IF "output_data" \in DOMAIN pred
                             THEN GetRaw(pred.output_data, "confidence", 0)
                             ELSE GetRaw(result, "confidence", 0)]

\* Python truthiness of an optional string / number
Truthy(opt, empty) == opt # None /\ opt[1] # empty

\* mutation: the loop without its crop test
VerdictWithoutCrop(pred, args) ==
    LET n == Normalize(pred)
    IN  IF Truthy(args.season, "") /\ args.season # n.season THEN "skip"
        ELSE IF Truthy(args.location, <<>>) /\ n.location = None THEN "raise"
        ELSE IF Truthy(args.location, <<>>)
                /\ ~Contains(Lower(n.location[1]), Lower(args.location[1])) THEN "skip"
        ELSE IF Truthy(args.region, "") /\ args.region # n.region THEN "skip"
        ELSE IF Truthy(args.min_revenue, 0) /\ n.revenue < args.min_revenue[1] THEN "skip"
        ELSE IF Truthy(args.max_revenue, 0) /\ n.revenue > args.max_revenue[1] THEN "skip"
        ELSE "keep"

\* the "Apply filters" chain on one record: "skip" at the first continue,
\* "raise" when .lower() is called on None, "keep" when append is reached
Verdict(pred, args) ==
    LET n == Normalize(pred)
    IN  IF Truthy(args.crop, "") /\ args.crop # n.crop_type THEN "skip"
        ELSE IF Truthy(args.season, "") /\ args.season # n.season THEN "skip"
        ELSE IF Truthy(args.location, <<>>) /\ n.location = None THEN "raise"
        ELSE IF Truthy(args.location, <<>>)
                /\ ~Contains(Lower(n.location[1]), Lower(args.location[1])) THEN "skip"
        ELSE IF Truthy(args.region, "") /\ args.region # n.region THEN "skip"
        ELSE IF Truthy(args.min_revenue, 0) /\ n.revenue < args.min_revenue[1] THEN "skip"
        ELSE IF Truthy(args.max_revenue, 0) /\ n.revenue > args.max_revenue[1] THEN "skip"
        ELSE "keep"

\* created_at.strftime('%B %d, %Y'): the calendar date without the time of day
FormattedDate(t) == [year |-> YearOf(t), month |-> MonthOf(t)]

Formatted(pred) ==
    LET n == Normalize(pred)
    IN  [id |-> pred._id,
         crop_type |-> n.crop_type, season |-> n.season,
         location |-> n.location, region |-> n.region,
         land_area |-> n.land_area, land_area_unit |-> n.land_area_unit,
         yield |-> n.yield, revenue |-> n.revenue, confidence |-> n.confidence,
         date |-> pred.created_at,
         formatted_date |-> FormattedDate(pred.created_at)]

\* a date string of the query: datetime.fromisoformat accepts it and yields
\* .instant, or rejects it with ValueError
IsoString(t) == [wellformed |-> TRUE, instant |-> t]
Malformed == [wellformed |-> FALSE, instant |-> 0]
DateGiven(opt) == opt # None
\* mutation: a parser that accepts every string
FromIsoFormatLenient(opt) == FALSE

FromIsoFormatRaises(opt) == DateGiven(opt) /\ ~opt[1].wellformed

\* mutation: the range with both ends exclusive ($gt / $lt)
DateQueryExclusive(user_id, args) ==
    SortDesc(SelectSeq(OwnedBy(user_id), LAMBDA d :
        /\ DateGiven(args.start_date) => d.created_at > args.start_date[1].instant
        /\ DateGiven(args.end_date) => d.created_at < args.end_date[1].instant))

\* find(query).sort('created_at', -1) with the date range pushed to the query
DateQuery(user_id, args) ==
    SortDesc(SelectSeq(OwnedBy(user_id), LAMBDA d :
        /\ DateGiven(args.start_date) => d.created_at >= args.start_date[1].instant
        /\ DateGiven(args.end_date) => d.created_at <= args.end_date[1].instant))

\* the loop over the fetched records and the answer it builds
FilterLoop(op, a, args, all_predictions) ==
    LET kept == SelectSeq(all_predictions, LAMBDA d : Verdict(d, args) = "keep")
    IN  IF \E i \in 1..Len(all_predictions) :
               Verdict(all_predictions[i], args) = "raise"
        THEN Error(op, a, 500, "AttributeError")
        ELSE Reply(op, a, 200,
                   [count |-> Len(kept),
                    predictions |-> [i \in 1..Len(kept) |-> Formatted(kept[i])]])

\* the answer of get_predictions_with_filters in the current state:
\* all_predictions = list(find(query).sort(...)) is fetched once, then looped over
FilterReply(user_id, args) ==
    LET op == "get_predictions_with_filters"
        a == [user_id |-> user_id, filters |-> args]
    IN  IF FromIsoFormatRaises(args.start_date) \/ FromIsoFormatRaises(args.end_date)
        THEN Error(op, a, 500, "ValueError")
        ELSE CHOOSE reply \in {FilterLoop(op, a, args, all_predictions) :
                                  all_predictions \in {DateQuery(user_id, args)}} : TRUE

\* mutation: the records fetched without .sort(), in insertion order
get_predictions_with_filters_unsorted(user_id, args) ==
    /\ user_id \in tokens
    /\ LET op == "get_predictions_with_filters"
           a == [user_id |-> user_id, filters |-> args]
       IN  IF FromIsoFormatRaises(args.start_date) \/ FromIsoFormatRaises(args.end_date)
           THEN resp' = Error(op, a, 500, "ValueError")
           ELSE LET all_predictions == SelectSeq(OwnedBy(user_id), LAMBDA d :
                        /\ DateGiven(args.start_date) =>
                               d.created_at >= args.start_date[1].instant
                        /\ DateGiven(args.end_date) =>
                               d.created_at <= args.end_date[1].instant)
                    kept == SelectSeq(all_predictions,
                                      LAMBDA d : Verdict(d, args) = "keep")
                IN  IF \E i \in 1..Len(all_predictions) :
                           Verdict(all_predictions[i], args) = "raise"
                    THEN resp' = Error(op, a, 500, "AttributeError")
                    ELSE resp' = Reply(op, a, 200,
                                   [count |-> Len(kept),
                                    predictions |->
                                       [i \in 1..Len(kept) |-> Formatted(kept[i])]])
    /\ UNCHANGED <<users, tokens, predictions, nextId, now, models_loaded, loads, inflight>>

get_predictions_with_filters(user_id, args) ==
    /\ user_id \in tokens
    /\ resp' = FilterReply(user_id, args)
    /\ UNCHANGED <<users, tokens, predictions, nextId, now, models_loaded, loads, inflight>>

\* -------------------------------------------------------------- listing
\* created_at.strftime('%B %d, %Y at %I:%M %p')
FormattedDateTime(t) ==
    [year |-> YearOf(t), month |-> MonthOf(t), time |-> t % TicksPerMonth]

\* the loop body of get_user_predictions; pred['input_data'] and
\* pred['output_data'] raise KeyError on a document without the key
ListingRaises(pred) ==
    \/ "input_data" \notin DOMAIN pred
    \/ "output_data" \notin DOMAIN pred

ListingEntry(pred) ==
    [id |-> pred._id,
     type |-> pred.prediction_type,
     input_data |-> pred.input_data,
     output_data |-> pred.output_data,
     model_type |-> GetRaw(pred, "model_type", "unknown"),
     date |-> pred.created_at,
     formatted_date |-> FormattedDateTime(pred.created_at)]

\* query = {'user_id': ...} plus prediction_type unless type = 'all'
ListingQuery(user_id, prediction_type) ==
    IF prediction_type # "all"
    THEN OfKind(OwnedBy(user_id), prediction_type)
    ELSE OwnedBy(user_id)

\* the answer of get_user_predictions in the current state
ListingReply(user_id, page, limit, prediction_type) ==
    LET op == "get_user_predictions"
        a == [user_id |-> user_id, page |-> page, limit |-> limit,
              type |-> prediction_type]
        matching == ListingQuery(user_id, prediction_type)
        total_count == Len(matching)
        \* limit(0) is "no limit" in MongoDB
        page_docs == IF limit = 0 THEN SortDesc(matching)
                     ELSE SkipLimit(SortDesc(matching), (page - 1) * limit, limit)
    IN  IF (page - 1) * limit < 0
        THEN Error(op, a, 500, "ValueError")
        ELSE IF \E i \in 1..Len(page_docs) : ListingRaises(page_docs[i])
        THEN Error(op, a, 500, "KeyError")
        ELSE IF limit = 0
        THEN Error(op, a, 500, "ZeroDivisionError")
        ELSE Reply(op, a, 200,
                 [predictions |->
                     [i \in 1..Len(page_docs) |-> ListingEntry(page_docs[i])],
                  pagination |->
                     [page |-> page, limit |-> limit, total |-> total_count,
                      pages |-> (total_count + limit - 1) \div limit]])

get_user_predictions(user_id, page, limit, prediction_type) ==
    /\ user_id \in tokens
    /\ resp' = ListingReply(user_id, page, limit, prediction_type)
    /\ UNCHANGED <<users, tokens, predictions, nextId, now, models_loaded, loads, inflight>>

\* ------------------------------------------------------------ analytics
\* a numeric query parameter: int() accepts it and yields .value, or rejects
\* it with ValueError
IntString(n) == [numeric |-> TRUE, value |-> n]
NotANumber == [numeric |-> FALSE, value |-> 0]
\* int(request.args.get(name, default))
IntArg(opt, default) == IF opt = None THEN default ELSE opt[1].value
IntArgRaises(opt) == opt # None /\ ~opt[1].numeric

\* mutation: the window query without its user_id condition
BetweenAnyUser(user_id, start, end) ==
    SelectSeq(predictions, LAMBDA d : d.created_at >= start /\ d.created_at < end)

\* find({'user_id': ..., 'created_at': {'$gte': start, '$lt': end}})
Between(user_id, start, end) ==
    SelectSeq(OwnedBy(user_id), LAMBDA d : d.created_at >= start /\ d.created_at < end)

\* monthly_data[month][pred_type] += 1 on a dict with the keys yield, crop,
\* risk and total only
MonthlyRaises(pred) == pred.prediction_type \notin {"yield", "crop", "risk"}

MonthlyData(docs) ==
    [m \in 1..MonthsPerYear |->
        LET inMonth == SelectSeq(docs, LAMBDA d : MonthOf(d.created_at) = m)
        IN  [yield |-> Len(OfKind(inMonth, "yield")),
             crop |-> Len(OfKind(inMonth, "crop")),
             risk |-> Len(OfKind(inMonth, "risk")),
             total |-> Len(inMonth)]]

\* the yield values read with pred['output_data'].get('yield', 0)
YieldsOrZero(docs) ==
    LET ys == OfKind(docs, "yield")
    IN  [i \in 1..Len(ys) |-> GetRaw(ys[i].output_data, "yield", 0)]

\* {crop: count} over pred['output_data'].get('crop', 'Unknown')
CropCounts(docs) ==
    LET cs == OfKind(docs, "crop")
        cropOf(d) == GetRaw(d.output_data, "crop", "Unknown")
    IN  [c \in {cropOf(cs[i]) : i \in 1..Len(cs)} |->
            Len(SelectSeq(cs, LAMBDA d : cropOf(d) = c))]

RiskCounts(docs) ==
    LET rs == OfKind(docs, "risk")
        riskOf(d) == GetRaw(d.output_data, "risk_level", "Low")
    IN  [r \in {"Low", "Medium", "High"} \cup {riskOf(rs[i]) : i \in 1..Len(rs)} |->
            Len(SelectSeq(rs, LAMBDA d : riskOf(d) = r))]

\* the answer of get_yearly_analytics in the current state
YearlyReply(user_id, yearArg) ==
    LET op == "get_yearly_analytics"
        a == [user_id |-> user_id, year |-> yearArg]
        year == IntArg(yearArg, YearOf(now))
        docs == Between(user_id, DateTime(year, 1), DateTime(year + 1, 1))
        monthly_data == MonthlyData(docs)
        ys == YieldsOrZero(docs)
        quarter(ms) == SumSeq([i \in 1..3 |-> monthly_data[ms + i].total])
    IN  IF IntArgRaises(yearArg)
        THEN Error(op, a, 500, "ValueError")
        ELSE IF \E i \in 1..Len(docs) : MonthlyRaises(docs[i])
        THEN Error(op, a, 500, "KeyError")
        ELSE Reply(op, a, 200,
                 [year |-> year,
                  summary |->
                     [total_predictions |-> Len(docs),
                      avg_yield |-> IF Len(ys) > 0
                                    THEN RoundHalfEven(100 * SumSeq(ys), Len(ys))
                                    ELSE 0,
                      estimated_revenue |->
                         IF Len(ys) > 0 /\ SumSeq(ys) > 0
                         THEN RoundHalfEven(100 * PricePerKg * SumSeq(ys), Len(ys))
                         ELSE 0],
                  monthly_breakdown |-> monthly_data,
                  quarterly_breakdown |->
                     [Q1 |-> quarter(0), Q2 |-> quarter(3),
                      Q3 |-> quarter(6), Q4 |-> quarter(9)],
                  crop_distribution |-> CropCounts(docs),
                  risk_distribution |-> RiskCounts(docs)])

get_yearly_analytics(user_id, yearArg) ==
    /\ user_id \in tokens
    /\ resp' = YearlyReply(user_id, yearArg)
    /\ UNCHANGED <<users, tokens, predictions, nextId, now, models_loaded, loads, inflight>>

\* datetime(year, month, 1) rejects a month outside 1..12
QuarterRaises(quarter) == (quarter - 1) * 3 + 1 \notin 1..MonthsPerYear

\* mutation: the quarter closed at its end ($lte)
QuarterDocsInclusive(user_id, year, quarter) ==
    LET quarter_start_month == (quarter - 1) * 3 + 1
        end_date == IF quarter = 4 THEN DateTime(year + 1, 1)
                    ELSE DateTime(year, quarter_start_month + 3)
    IN  SelectSeq(OwnedBy(user_id), LAMBDA d :
            d.created_at >= DateTime(year, quarter_start_month) /\ d.created_at <= end_date)

QuarterDocs(user_id, year, quarter) ==
    LET quarter_start_month == (quarter - 1) * 3 + 1
        start_date == DateTime(year, quarter_start_month)
        end_date == IF quarter = 4 THEN DateTime(year + 1, 1)
                    ELSE DateTime(year, quarter_start_month + 3)
    IN  Between(user_id, start_date, end_date)

\* the answer of get_quarterly_analytics in the current state
QuarterlyReply(user_id, yearArg, quarterArg) ==
    LET op == "get_quarterly_analytics"
        a == [user_id |-> user_id, year |-> yearArg, quarter |-> quarterArg]
        year == IntArg(yearArg, YearOf(now))
        quarter == IntArg(quarterArg, ((MonthOf(now) - 1) \div 3) + 1)
        docs == QuarterDocs(user_id, year, quarter)
        ys == YieldsOrZero(docs)
    IN  IF IntArgRaises(yearArg) \/ IntArgRaises(quarterArg) \/ QuarterRaises(quarter)
        THEN Error(op, a, 500, "ValueError")
        ELSE Reply(op, a, 200,
                 [year |-> year,
                  quarter |-> quarter,
                  total_predictions |-> Len(docs),
                  avg_yield |-> IF Len(ys) > 0
                                THEN RoundHalfEven(100 * SumSeq(ys), Len(ys))
                                ELSE 0,
                  revenue |-> IF Len(ys) > 0
                              THEN RoundHalfEven(100 * PricePerKg * SumSeq(ys), Len(ys))
                              ELSE 0,
                  crops_recommended |-> DOMAIN CropCounts(docs)])

get_quarterly_analytics(user_id, yearArg, quarterArg) ==
    /\ user_id \in tokens
    /\ resp' = QuarterlyReply(user_id, yearArg, quarterArg)
    /\ UNCHANGED <<users, tokens, predictions, nextId, now, models_loaded, loads, inflight>>

\* ------------------------------------------------------- request inputs
\* JSON bodies POSTed to /api/save-detailed-prediction
FullRequest ==
    [cropType |-> "rice", season |-> "Kharif", location |-> <<"P", "u">>,
     region |-> "West", landArea |-> 2, landAreaUnit |-> "acres",
     result |-> [yield |-> 200, revenue |-> 5000, confidence |-> 90]]
PartialRequest ==
    [cropType |-> "wheat", location |-> <<"p", "u", "n", "e">>,
     result |-> [yield |-> 200]]
EmptyRequest == <<>>
FilterRequests == {FullRequest, PartialRequest, EmptyRequest}

\* query strings of /api/predictions/filters
NoFilter ==
    [crop |-> None, season |-> None, location |-> None, region |-> None,
     start_date |-> None, end_date |-> None,
     min_revenue |-> None, max_revenue |-> None]
Supplied(args) == {k \in DOMAIN args : args[k] # None}
\* the values a query may give to each parameter
FilterValues ==
    [crop |-> {Some("rice"), Some("Mixed")},
     season |-> {Some("Kharif")},
     location |-> {Some(<<"p", "u">>), Some(<<"L", "O", "C">>)},
     region |-> {Some("West")},
     start_date |-> {Some(IsoString(StartTime + 1)), Some(Malformed)},
     end_date |-> {Some(IsoString(StartTime)), Some(Malformed)},
     min_revenue |-> {Some(0), Some(5000)},
     max_revenue |-> {Some(0), Some(4000)}]
\* queries supplying no parameter, one parameter, or one of the listed pairs
OneFilter ==
    {[NoFilter EXCEPT ![k] = v] : <<k, v>> \in
        UNION {{<<k, v>> : v \in FilterValues[k]} : k \in DOMAIN FilterValues}}
TwoFilters ==
    { [NoFilter EXCEPT !.crop = Some("rice"), !.max_revenue = Some(4000)],
      [NoFilter EXCEPT !.crop = Some("rice"), !.location = Some(<<"p", "u">>)],
      [NoFilter EXCEPT !.crop = Some("Mixed"), !.location = Some(<<"p", "u">>)],
      [NoFilter EXCEPT !.season = Some("Kharif"), !.start_date = Some(Malformed)],
      [NoFilter EXCEPT !.region = Some("West"), !.end_date = Some(Malformed)],
      [NoFilter EXCEPT !.start_date = Some(IsoString(StartTime + 1)),
                       !.min_revenue = Some(5000)],
      [NoFilter EXCEPT !.end_date = Some(IsoString(StartTime)),
                       !.location = Some(<<"L", "O", "C">>)],
      [NoFilter EXCEPT !.start_date = Some(IsoString(StartTime + 1)),
                       !.end_date = Some(IsoString(StartTime + 1))],
      [NoFilter EXCEPT !.min_revenue = Some(5000), !.max_revenue = Some(4000)] }
FilterArgs == {NoFilter} \cup OneFilter \cup TwoFilters

Kinds == {"yield", "crop", "risk", "yield_detailed"}

\* ------------------------------------------------------- specifications
\* The read handlers have no side effect, so a read's reply is the same
\* whatever reply preceded it: each specification explores them from the
\* states that a write or a clock step has produced.
ReadOps == {"get_aggregate_dashboard", "get_personal_dashboard",
            "get_predictions_with_filters", "get_user_predictions",
            "get_yearly_analytics", "get_quarterly_analytics"}
AfterWrite == resp.op \notin ReadOps

\* Spec: basic and detailed saves by every user, and the two dashboards
SpecYields == {o \in YieldOutcomes : o.yield = 1500}
SpecCrops == {o \in CropOutcomes : o.crop = "rice"}
Next ==
    \/ Tick
    \/ \E u \in UserIds, valid \in BOOLEAN : register(u, valid)
    \/ \E u \in UserIds : delete_account(u)
    \/ nextId <= MaxRecords /\ \E c \in UserIds, o \in SpecYields : predict_yield(c, o)
    \/ nextId <= MaxRecords /\ \E c \in UserIds \cup {Guest}, o \in SpecCrops : predict_crop(c, o)
    \/ nextId <= MaxRecords /\ \E u \in UserIds : save_detailed_prediction(u, FullRequest)
    \/ AfterWrite /\ \E c \in UserIds \cup {Guest} : get_dashboard_stats(c)

Spec == Init /\ [][Next]_vars

\* SpecPersonal: a longer history of user 1 of every kind, and the dashboards
NextPersonal ==
    \/ Tick
    \/ register(1, TRUE)
    \/ delete_account(1)
    \/ nextId <= MaxHistory /\ \E o \in YieldOutcomes : predict_yield(1, o)
    \/ nextId <= MaxHistory /\ \E o \in CropOutcomes : predict_crop(1, o)
    \/ nextId <= MaxHistory /\ \E o \in RiskOutcomes : predict_risk(1, o)
    \/ nextId <= MaxHistory /\ save_detailed_prediction(1, FullRequest)
    \/ AfterWrite /\ \E c \in {1, Guest} : get_dashboard_stats(c)

SpecPersonal == Init /\ [][NextPersonal]_vars

\* SpecFilter: basic and detailed saves of user 1, and the filter endpoint
NextFilter ==
    \/ Tick
    \/ register(1, TRUE)
    \/ delete_account(1)
    \/ nextId <= MaxRecords /\ \E o \in SpecYields : predict_yield(1, o)
    \/ nextId <= MaxRecords /\ \E o \in SpecCrops : predict_crop(1, o)
    \/ nextId <= MaxRecords /\ \E data \in FilterRequests : save_detailed_prediction(1, data)
    \/ AfterWrite /\ \E args \in FilterArgs : get_predictions_with_filters(1, args)

SpecFilter == Init /\ [][NextFilter]_vars

\* SpecList: saves of user 1, and the paginated listing
NextList ==
    \/ Tick
    \/ register(1, TRUE)
    \/ delete_account(1)
    \/ nextId <= MaxHistory /\ \E o \in SpecYields : predict_yield(1, o)
    \/ nextId <= MaxHistory /\ \E o \in SpecCrops : predict_crop(1, o)
    \/ nextId <= MaxHistory /\ save_detailed_prediction(1, FullRequest)
    \/ AfterWrite /\ \E page \in 0..MaxPage, limit \in 0..MaxLimit,
                        kind \in Kinds \cup {"all"} :
                        get_user_predictions(1, page, limit, kind)

SpecList == Init /\ [][NextList]_vars

\* SpecAnalytics: saves of user 1, and the yearly and quarterly analytics
YearArgs == {None, Some(NotANumber)} \cup
            {Some(IntString(y)) : y \in YearOf(StartTime)..YearOf(MaxTime)}
QuarterArgs == {None} \cup {Some(IntString(q)) : q \in 1..5}
NextAnalytics ==
    \/ Tick
    \/ register(1, TRUE)
    \/ delete_account(1)
    \/ nextId <= MaxHistory /\ \E o \in SpecYields : predict_yield(1, o)
    \/ nextId <= MaxHistory /\ \E o \in SpecCrops : predict_crop(1, o)
    \/ nextId <= MaxHistory /\ \E o \in RiskOutcomes : predict_risk(1, o)
    \/ nextId <= MaxHistory /\ save_detailed_prediction(1, FullRequest)
    \/ AfterWrite /\ \E y \in YearArgs : get_yearly_analytics(1, y)
    \/ AfterWrite /\ \E y \in YearArgs, q \in QuarterArgs :
                        get_quarterly_analytics(1, y, q)

SpecAnalytics == Init /\ [][NextAnalytics]_vars

\* SpecRecent: a history of user 1 longer than the recent list, basic yield
\* records with detailed ones among the latest MaxRecords
NextRecent ==
    \/ Tick
    \/ register(1, TRUE)
    \/ nextId <= MaxRecent /\ \E o \in SpecYields : predict_yield(1, o)
    \/ /\ nextId > MaxRecent - MaxRecords
       /\ nextId <= MaxRecent
       /\ save_detailed_prediction(1, FullRequest)
    \/ AfterWrite /\ get_dashboard_stats(1)

SpecRecent == Init /\ [][NextRecent]_vars

\* SpecService: every operation of the service; users 1 and 2 both save
\* and delete, user 1 edits the profile and reads
ProfileRequests == {<<>>, [name |-> "B"], [email |-> 2]}
Passwords == {None, Some("p0"), Some("p1")}
NextService ==
    \/ \E u \in {1, 2}, valid \in BOOLEAN : register(u, valid)
    \/ \E u \in {1, 2} : delete_account(u)
    \/ \E data \in ProfileRequests : update_profile(1, data)
    \/ \E old \in Passwords, new \in {None, Some("p1")} : change_password(1, old, new)
    \/ nextId <= MaxRecords /\ \E o \in SpecYields : predict_yield(1, o)
    \/ nextId <= MaxRecords /\ \E c \in {2, Guest}, o \in SpecCrops : predict_crop(c, o)
    \/ nextId <= MaxRecords /\ \E o \in RiskOutcomes : predict_risk(2, o)
    \/ nextId <= MaxRecords /\ save_detailed_prediction(1, FullRequest)
    \/ AfterWrite /\ \E c \in {1, Guest} : get_dashboard_stats(c)
    \/ AfterWrite /\ get_predictions_with_filters(1, NoFilter)
    \/ AfterWrite /\ get_user_predictions(1, 1, MaxLimit, "all")
    \/ AfterWrite /\ get_yearly_analytics(1, None)
    \/ AfterWrite /\ get_quarterly_analytics(1, None, None)

SpecService == Init /\ [][NextService]_vars

\* ================================================================ claims
\* vocabulary of the claims, stated on the stored documents directly
Indices == 1..Len(predictions)
OwnedIndices(u) == {i \in Indices : predictions[i].user_id = u}
body == resp.body

\* C1: for an empty prediction store the aggregate dashboard answers 200 with
\* total_predictions, avg_yield and success_rate all 0; for an existing user
\* who owns no record the personal dashboard answers 200 with every count,
\* avg_yield, success_rate and the all-time total 0, an empty crop
\* distribution, top_crop "N/A" and an empty recent list.
C1_EmptyStatisticsAreZero ==
    /\ (resp.op = "get_aggregate_dashboard" /\ predictions = <<>>) =>
          /\ resp.status = 200
          /\ body.total_predictions = 0
          /\ body.avg_yield = 0
          /\ body.success_rate = 0
    /\ (/\ resp.op = "get_personal_dashboard"
        /\ resp.args.user_id \in DOMAIN users
        /\ OwnedIndices(resp.args.user_id) = {}) =>
          /\ resp.status = 200
          /\ body.year_summary.total_predictions = 0
          /\ body.year_summary.yield_predictions = 0
          /\ body.year_summary.crop_predictions = 0
          /\ body.year_summary.risk_predictions = 0
          /\ body.statistics.avg_yield = 0
          /\ body.statistics.success_rate = 0
          /\ body.statistics.total_predictions_all_time = 0
          /\ body.statistics.crop_count = 0
          /\ body.statistics.top_crop = "N/A"
          /\ DOMAIN body.crop_recommendations = {}
          /\ body.recent_predictions = <<>>

\* an existing user without records asked for the dashboard while another
\* user's records are in the store
C1_Witness ==
    /\ resp.op = "get_personal_dashboard"
    /\ resp.status = 200
    /\ resp.args.user_id \in DOMAIN users
    /\ OwnedIndices(resp.args.user_id) = {}
    /\ predictions # <<>>

\* C2: the personal dashboard of an owner id that matches no user is the
\* 404 "User not found" reply and carries nothing else; an existing user,
\* with or without records, gets the 200 reply with the statistics.
C2_UnknownOwnerIsNotFound ==
    resp.op = "get_personal_dashboard" =>
        IF resp.args.user_id \in DOMAIN users
        THEN resp.status = 200 /\ "statistics" \in DOMAIN body
        ELSE resp.status = 404 /\ body = [error |-> "User not found"]

\* a deleted user's token asks for the dashboard while the store still holds
\* a record under that owner id
C2_Witness ==
    /\ resp.op = "get_personal_dashboard"
    /\ resp.status = 404
    /\ resp.args.user_id \notin DOMAIN users
    /\ OwnedIndices(resp.args.user_id) # {}

\* SpecIsolation: two accounts writing side by side, and the dashboards
NextIsolation ==
    \/ \E u \in {1, 2}, valid \in BOOLEAN : register(u, valid)
    \/ \E u \in {1, 2} : delete_account(u)
    \/ update_profile(2, [name |-> "B"])
    \/ nextId <= MaxRecords /\ \E o \in SpecYields : predict_yield(1, o)
    \/ nextId <= MaxRecords /\ \E c \in {2, Guest}, o \in SpecCrops : predict_crop(c, o)
    \/ nextId <= MaxRecords /\ \E u \in {1, 2} : save_detailed_prediction(u, FullRequest)
    \/ AfterWrite /\ \E c \in {1, Guest} : get_dashboard_stats(c)

SpecIsolation == Init /\ [][NextIsolation]_vars

\* SpecSteps: one account whose saves run step by step in concurrent requests
NextSteps ==
    \/ \E valid \in BOOLEAN : register(1, valid)
    \/ delete_account(1)
    \/ \E r \in Requests, c \in {1, Guest} : predict_yield_enter(r, c)
    \/ \E r \in Requests : predict_yield_load(r)
    \/ nextId <= MaxRecords /\ \E r \in Requests, o \in SpecYields : predict_yield_insert(r, o)
    \/ nextId <= MaxRecords /\ \E r \in Requests : save_detailed_insert(r, 1, FullRequest)
    \/ \E r \in Requests : update_counter(r)
    \/ \E r \in Requests : update_fails(r)

SpecSteps == Init /\ [][NextSteps]_vars

\* ---- vocabulary of the statistics claims
Abs(x) == IF x < 0 THEN -x ELSE x
\* r is a nearest integer to scale * part / whole
NearestRatio(r, scale, part, whole) == 2 * Abs(r * whole - scale * part) <= whole
\* the confidence a record holds: in its output data, or for a detailed
\* record in its result mapping
ConfidenceOf(d) ==
    IF "output_data" \in DOMAIN d
    THEN GetRaw(d.output_data, "confidence", 0)
    ELSE GetRaw(GetRaw(d, "prediction_result", <<>>), "confidence", 0)
ThisYear(u) == {i \in OwnedIndices(u) : YearOf(predictions[i].created_at) >= YearOf(now)}
Confident(I) == {i \in I : ConfidenceOf(predictions[i]) >= 70}

\* C4: the personal success_rate is round(success_count / total_year_count
\* * 100, 1), total_year_count being the number of the owner's records of the
\* current year and success_count the number of those with confidence >=
\* 0.70, and 0 when there is no record this year; two confident records out
\* of three give 66.7.
C4_PersonalSuccessRate ==
    (resp.op = "get_personal_dashboard" /\ resp.status = 200) =>
        LET year == ThisYear(resp.args.user_id)
            total_year_count == Cardinality(year)
            success_count == Cardinality(Confident(year))
            rate == body.statistics.success_rate
        IN  /\ total_year_count = 0 => rate = 0
            /\ total_year_count > 0 =>
                   NearestRatio(rate, 1000, success_count, total_year_count)
            /\ (total_year_count = 3 /\ success_count = 2) => rate = 667

\* C5: the aggregate success_rate is the share of all records with
\* confidence >= 0.70, as a percentage rounded to a whole number, and 0 for
\* an empty store.
C5_AggregateSuccessRate ==
    (resp.op = "get_aggregate_dashboard" /\ resp.status = 200) =>
        LET total == Cardinality(Indices)
            high == Cardinality(Confident(Indices))
        IN  /\ total = 0 => body.success_rate = 0
            /\ total > 0 => NearestRatio(body.success_rate, 100, high, total)

\* C6: for page p >= 1 and page size s >= 1 the listing answers with the
\* records at positions (p-1)*s+1 .. min(p*s, T) of the caller's records of
\* the selected type (all of them for type "all") in descending created_at
\* order, T being their number, and reports total = T and pages = ceil(T/s).
C6_ListingPage ==
    (resp.op = "get_user_predictions" /\ resp.args.page >= 1 /\ resp.args.limit >= 1) =>
        LET p == resp.args.page
            s == resp.args.limit
            selected == SelectSeq(predictions, LAMBDA d :
                            /\ d.user_id = resp.args.user_id
                            /\ resp.args.type \in {"all", d.prediction_type})
            T == Len(selected)
            sorted == SortDesc(selected)
            expected == SubSeq(sorted, (p - 1) * s + 1, Min(p * s, T))
        IN  /\ resp.status = 200
            /\ [i \in 1..Len(body.predictions) |-> body.predictions[i].id]
                   = [i \in 1..Len(expected) |-> expected[i]._id]
            /\ body.pagination.total = T
            /\ body.pagination.pages * s >= T
            /\ (body.pagination.pages - 1) * s < T \/ T = 0

\* ---- vocabulary of the filter claims
IsFilterReply == resp.op = "get_predictions_with_filters"
query == resp.args.filters
MalformedDate(opt) == opt # None /\ ~opt[1].wellformed
WellFormedQuery == ~MalformedDate(query.start_date) /\ ~MalformedDate(query.end_date)
DocOf(id) == CHOOSE d \in SeqToSet(predictions) : d._id = id
Entries == SeqToSet(body.predictions)

\* a record satisfies the supplied predicate k of the query
Satisfies(d, k) ==
    LET n == Normalize(d)
    IN  CASE k = "crop" -> n.crop_type = query.crop
          [] k = "season" -> n.season = query.season
          [] k = "location" -> /\ n.location # None
                               /\ Contains(Lower(n.location[1]), Lower(query.location[1]))
          [] k = "region" -> n.region = query.region
          [] k = "start_date" -> d.created_at >= query.start_date[1].instant
          [] k = "end_date" -> d.created_at <= query.end_date[1].instant
          [] k = "min_revenue" -> n.revenue >= query.min_revenue[1]
          [] k = "max_revenue" -> n.revenue <= query.max_revenue[1]

\* C3: the filter endpoint returns exactly the caller's records whose
\* normalized view satisfies every supplied predicate (the intersection of
\* the per-predicate subsets; nothing supplied, everything owned), and count
\* is their number.  Stated for queries whose dates parse.
C3_FilterIsIntersection ==
    (IsFilterReply /\ WellFormedQuery) =>
        LET expected == {predictions[i]._id : i \in
                            {j \in OwnedIndices(resp.args.user_id) :
                                \A k \in Supplied(query) : Satisfies(predictions[j], k)}}
        IN  /\ resp.status = 200
            /\ {e.id : e \in Entries} = expected
            /\ body.count = Cardinality(expected)

\* C7: a record that carries an explicit revenue normalizes to that value,
\* and a basic record, which carries none, to yield * 20: the estimate never
\* replaces an explicit value.  A detailed record with revenue 5000
\* normalizes to 5000 and a basic record with yield 200 to 4000.
HasExplicitRevenue(d) ==
    /\ "prediction_result" \in DOMAIN d
    /\ "revenue" \in DOMAIN d.prediction_result
C7_ExplicitRevenueWins ==
    /\ (IsFilterReply /\ resp.status = 200) =>
          \A e \in Entries :
              LET d == DocOf(e.id)
              IN  /\ HasExplicitRevenue(d) => e.revenue = d.prediction_result.revenue
                  /\ (~HasExplicitRevenue(d) /\ "output_data" \in DOMAIN d) =>
                         /\ "yield" \in DOMAIN d.output_data =>
                                e.revenue = d.output_data.yield * 20
                         /\ "yield" \notin DOMAIN d.output_data => e.revenue = 0
    /\ Normalize(DetailedDoc(1, 1, FullRequest, 0)).revenue = 5000
    /\ Normalize(YieldDoc(2, 1, [yield |-> 200, confidence |-> 70,
                                 model_type |-> "mock"], 0)).revenue = 4000

\* one reply lists a detailed record with its explicit revenue next to a
\* basic yield record with the estimate
C7_Witness ==
    /\ IsFilterReply
    /\ resp.status = 200
    /\ \E e \in Entries : HasExplicitRevenue(DocOf(e.id)) /\ e.revenue = 5000
    /\ \E e \in Entries : ~HasExplicitRevenue(DocOf(e.id)) /\ e.revenue = 1500 * 20

\* C8: normalizing and filtering stored records never raises, whichever
\* optional fields a record lacks and whichever predicates are supplied: a
\* query whose dates parse is answered with 200.
C8_FilterNeverRaises ==
    (IsFilterReply /\ WellFormedQuery) => resp.status = 200

\* C9: every record the filter endpoint returns satisfies each supplied
\* revenue bound, for every bound value including 0.
C9_RevenueBoundsHold ==
    (IsFilterReply /\ resp.status = 200) =>
        \A e \in Entries :
            /\ query.min_revenue # None => e.revenue >= query.min_revenue[1]
            /\ query.max_revenue # None => e.revenue <= query.max_revenue[1]

\* C10 as stated: a query with a malformed start_date or end_date still
\* succeeds.
C10_MalformedDateIsDropped ==
    (IsFilterReply /\ ~WellFormedQuery) => resp.status = 200

\* C10 as amended: a malformed start_date or end_date fails the whole query:
\* the reply is the 500 error and lists no record, whatever else is supplied
\* and whatever the store holds; a query whose dates parse never gets that
\* error.
C10_MalformedDateFailsQuery ==
    IsFilterReply =>
        IF WellFormedQuery
        THEN body # [error |-> "ValueError"]
        ELSE resp.status = 500 /\ body = [error |-> "ValueError"]

\* a malformed date next to another predicate, while the caller owns a record
\* that predicate matches
C10_Witness ==
    /\ IsFilterReply
    /\ resp.status = 500
    /\ MalformedDate(query.start_date)
    /\ query.season = Some("Kharif")
    /\ \E i \in OwnedIndices(resp.args.user_id) :
           Normalize(predictions[i]).season = Some("Kharif")

\* C11: the date range of the filter endpoint is inclusive at both ends: no
\* returned record is stamped before start_date or after end_date, and a
\* query that supplies only date bounds returns exactly the caller's records
\* with start_date <= created_at <= end_date, a missing bound leaving its
\* side open.
InDateRange(d) ==
    /\ query.start_date # None => d.created_at >= query.start_date[1].instant
    /\ query.end_date # None => d.created_at <= query.end_date[1].instant
C11_DateRangeInclusive ==
    (IsFilterReply /\ WellFormedQuery) =>
        /\ resp.status = 200 => \A e \in Entries : InDateRange(DocOf(e.id))
        /\ Supplied(query) \subseteq {"start_date", "end_date"} =>
              /\ resp.status = 200
              /\ {e.id : e \in Entries} =
                     {predictions[i]._id : i \in
                         {j \in OwnedIndices(resp.args.user_id) :
                             InDateRange(predictions[j])}}

\* both bounds equal the stamp of a returned record, while the caller owns
\* another record that the range leaves out
C11_Witness ==
    /\ IsFilterReply
    /\ resp.status = 200
    /\ Supplied(query) = {"start_date", "end_date"}
    /\ \E e \in Entries :
           /\ DocOf(e.id).created_at = query.start_date[1].instant
           /\ DocOf(e.id).created_at = query.end_date[1].instant
    /\ \E i \in OwnedIndices(resp.args.user_id) : ~InDateRange(predictions[i])

\* ---- vocabulary of the analytics claims
Numeric(opt) == opt = None \/ opt[1].numeric
StampedIn(u, start, end) ==
    {i \in OwnedIndices(u) : predictions[i].created_at >= start
                             /\ predictions[i].created_at < end}

\* C12: for every owner and every year the yearly analytics answer carries a
\* monthly_breakdown with exactly the keys 1..12, and a month in which the
\* owner has no record shows 0 for yield, crop, risk and total.
C12_TwelveMonths ==
    (resp.op = "get_yearly_analytics" /\ Numeric(resp.args.year)) =>
        /\ resp.status = 200
        /\ DOMAIN body.monthly_breakdown = 1..12
        /\ \A m \in 1..12 :
               StampedIn(resp.args.user_id, DateTime(body.year, m),
                         DateTime(body.year, m + 1)) = {} =>
                   body.monthly_breakdown[m] =
                       [yield |-> 0, crop |-> 0, risk |-> 0, total |-> 0]

\* C13: quarter q of year Y counts the caller's records stamped in
\* [first day of month 3(q-1)+1 of Y, end), end being Jan 1 of Y+1 for q = 4
\* and the first day of month 3q+1 of Y for q = 1..3: a record stamped at the
\* start is counted, one stamped at end is not; every quarter 1..4 is
\* answered.
QuarterStart(Y, q) == DateTime(Y, 3 * (q - 1) + 1)
QuarterEnd(Y, q) == IF q = 4 THEN DateTime(Y + 1, 1) ELSE DateTime(Y, 3 * q + 1)
Deleted == tokens \ DOMAIN users

\* C14: once an account deletion has completed the store holds no prediction
\* record owned by the deleted user, and this stays so afterwards, whatever
\* requests are made with the user's token.
C14_NoRecordOfDeletedUser ==
    \A u \in Deleted : OwnedIndices(u) = {}

\* C15: after any sequence of registrations, saves and account deletions the
\* aggregate dashboard reports total_predictions = the number of prediction
\* records now in the store and active_farmers = the number of users now in
\* the store.
C15_AggregateCountsStore ==
    resp.op = "get_aggregate_dashboard" =>
        /\ resp.status = 200
        /\ body.total_predictions = Cardinality(Indices)
        /\ body.active_farmers = Cardinality(DOMAIN users)

\* the dashboard is asked for after a deletion, while a user and a record
\* remain
C15_Witness ==
    /\ resp.op = "get_aggregate_dashboard"
    /\ resp.status = 200
    /\ Deleted # {}
    /\ body.total_predictions >= 1
    /\ body.active_farmers >= 1

\* ---- vocabulary of the personal dashboard claims
IsPersonalReply == resp.op = "get_personal_dashboard" /\ resp.status = 200
recent == body.recent_predictions

\* C16: recent_predictions holds min(10, n) of the n records the owner owns,
\* each once: they are in descending created_at order and no record left out
\* is newer than a listed one, whatever their kind and their year.
C16_RecentTen ==
    IsPersonalReply =>
        LET owned == OwnedIndices(resp.args.user_id)
            n == Cardinality(owned)
            listed == {recent[k].id : k \in 1..Len(recent)}
        IN  /\ Len(recent) = IF n < 10 THEN n ELSE 10
            /\ Cardinality(listed) = Len(recent)
            /\ listed \subseteq {predictions[i]._id : i \in owned}
            /\ \A k \in 1..Len(recent) :
                   recent[k].created_at = DocOf(recent[k].id).created_at
            /\ \A k \in 1..(Len(recent) - 1) :
                   recent[k].created_at >= recent[k + 1].created_at
            /\ \A i \in owned : predictions[i]._id \notin listed =>
                   \A k \in 1..Len(recent) :
                       predictions[i].created_at <= recent[k].created_at

\* an owner of more than 10 records: the list holds 10 of them, of both
\* variants and from last year as well as this one, and leaves an older one
\* out
C16_Witness ==
    /\ IsPersonalReply
    /\ Cardinality(OwnedIndices(resp.args.user_id)) > 10
    /\ Len(recent) = 10
    /\ \E k \in 1..10 : recent[k].prediction_type = "yield_detailed"
    /\ \E k \in 1..10 : recent[k].prediction_type = "yield"
    /\ \E k \in 1..10 : YearOf(recent[k].created_at) < YearOf(now)
    /\ \E k \in 1..10 : YearOf(recent[k].created_at) = YearOf(now)

\* C17: the crop distribution maps each crop to the number of the owner's
\* crop records of the current year that recommend it, and top_crop is a crop
\* of maximal count in it, or "N/A" when it is empty.
C17_CropDistribution ==
    IsPersonalReply =>
        LET crops == {i \in ThisYear(resp.args.user_id) :
                         predictions[i].prediction_type = "crop"}
            dist == body.crop_recommendations
            top == body.statistics.top_crop
        IN  /\ DOMAIN dist = {predictions[i].output_data.crop : i \in crops}
            /\ \A c \in DOMAIN dist :
                   dist[c] = Cardinality({i \in crops : predictions[i].output_data.crop = c})
            /\ body.statistics.crop_count = Cardinality(DOMAIN dist)
            /\ IF DOMAIN dist = {} THEN top = "N/A"
               ELSE top \in DOMAIN dist /\ \A c \in DOMAIN dist : dist[top] >= dist[c]

\* two crops recommended this year, one more often than the other
C17_Witness ==
    /\ IsPersonalReply
    /\ \E c, e \in DOMAIN body.crop_recommendations :
           body.crop_recommendations[c] > body.crop_recommendations[e]

\* C18: total_predictions_all_time counts every record the owner owns and
\* the year summary only those of the current year, so a record from before
\* the year start counts in the first and not in the second, and the
\* all-time total is never the smaller one.
C18_AllTimeAndYearTotals ==
    IsPersonalReply =>
        /\ body.statistics.total_predictions_all_time =
               Cardinality(OwnedIndices(resp.args.user_id))
        /\ body.year_summary.total_predictions =
               Cardinality(ThisYear(resp.args.user_id))
        /\ body.statistics.total_predictions_all_time >=
               body.year_summary.total_predictions

\* the owner has a record from last year next to one from this year
C18_Witness ==
    /\ IsPersonalReply
    /\ body.year_summary.total_predictions >= 1
    /\ body.statistics.total_predictions_all_time > body.year_summary.total_predictions

\* C19: the filter endpoint lists its records in descending created_at
\* order, each owned record at most once: the output is a subsequence of the
\* caller's records sorted by created_at descending.
C19_FilterKeepsOrder ==
    (IsFilterReply /\ resp.status = 200) =>
        LET out == body.predictions
        IN  /\ \A k \in 1..Len(out) :
                   \E i \in OwnedIndices(resp.args.user_id) : predictions[i]._id = out[k].id
            /\ \A k, l \in 1..Len(out) : k < l =>
                   /\ out[k].id # out[l].id
                   /\ DocOf(out[k].id).created_at >= DocOf(out[l].id).created_at

\* a supplied predicate keeps two records stamped at different times
C19_Witness ==
    /\ IsFilterReply
    /\ resp.status = 200
    /\ Supplied(query) # {}
    /\ \E k \in 1..(Len(body.predictions) - 1) :
           DocOf(body.predictions[k].id).created_at >
               DocOf(body.predictions[k + 1].id).created_at

\* C20: a prediction record, once written, is never changed by any
\* operation, and it leaves the store only in the step that deletes its
\* owner's account.
C20_RecordsImmutable ==
    [][\A i \in Indices :
          LET d == predictions[i]
              after == {predictions'[j] : j \in 1..Len(predictions')}
          IN  /\ \A e \in after : e._id = d._id => e = d
              /\ d \notin after =>
                    /\ resp'.op = "delete_account"
                    /\ resp'.status = 200
                    /\ resp'.args.user_id = d.user_id
                    /\ d.user_id \in DOMAIN users
                    /\ d.user_id \notin DOMAIN users']_vars

\* an account deletion has completed and another owner's record is still in
\* the store
C20_Witness ==
    /\ resp.op = "delete_account"
    /\ resp.status = 200
    /\ \E i \in Indices : predictions[i].user_id \in DOMAIN users

\* ---- vocabulary of the zero-denominator claim
EffectiveYear == IF resp.args.year = None THEN YearOf(now) ELSE resp.args.year[1].value
EffectiveQuarter ==
    IF resp.args.quarter = None THEN ((MonthOf(now) - 1) \div 3) + 1
    ELSE resp.args.quarter[1].value
YieldsAmong(I) == {i \in I : predictions[i].prediction_type = "yield"}

\* C21: every average and rate of the aggregate, personal, yearly and
\* quarterly statistics is 0, and the reply is not an error, when its
\* denominator is zero: a window without yield records has avg_yield 0 and
\* estimated revenue 0, a window without records has success_rate 0.
C21_ZeroDenominatorGivesZero ==
    /\ resp.op = "get_aggregate_dashboard" =>
          /\ resp.status = 200
          /\ YieldsAmong(Indices) = {} => body.avg_yield = 0
          /\ Indices = {} => body.success_rate = 0
    /\ (resp.op = "get_personal_dashboard" /\ resp.args.user_id \in DOMAIN users) =>
          /\ resp.status = 200
          /\ YieldsAmong(ThisYear(resp.args.user_id)) = {} => body.statistics.avg_yield = 0
          /\ ThisYear(resp.args.user_id) = {} => body.statistics.success_rate = 0
    /\ (/\ resp.op = "get_yearly_analytics"
        /\ Numeric(resp.args.year)
        /\ YieldsAmong(StampedIn(resp.args.user_id, DateTime(EffectiveYear, 1),
                                 DateTime(EffectiveYear + 1, 1))) = {}) =>
          /\ resp.status = 200
          /\ body.summary.avg_yield = 0
          /\ body.summary.estimated_revenue = 0
    /\ (/\ resp.op = "get_quarterly_analytics"
        /\ Numeric(resp.args.year) /\ Numeric(resp.args.quarter)
        /\ EffectiveQuarter \in 1..4
        /\ YieldsAmong(StampedIn(resp.args.user_id,
                                 QuarterStart(EffectiveYear, EffectiveQuarter),
                                 QuarterEnd(EffectiveYear, EffectiveQuarter))) = {}) =>
          /\ resp.status = 200
          /\ body.avg_yield = 0
          /\ body.revenue = 0

\* C22: a query for a crop that is the normalized crop_type of none of the
\* caller's records is answered with an empty predictions list and count 0.
C22_UnknownCropGivesNothing ==
    (/\ IsFilterReply
     /\ WellFormedQuery
     /\ query.crop # None
     /\ \A i \in OwnedIndices(resp.args.user_id) :
            Normalize(predictions[i]).crop_type # query.crop) =>
        /\ resp.status = 200
        /\ body.predictions = <<>>
        /\ body.count = 0

\* the caller owns records, none of the crop asked for
C22_Witness ==
    /\ IsFilterReply
    /\ resp.status = 200
    /\ query.crop # None
    /\ OwnedIndices(resp.args.user_id) # {}
    /\ \A i \in OwnedIndices(resp.args.user_id) :
           Normalize(predictions[i]).crop_type # query.crop
    /\ body.count = 0

\* ---- vocabulary of the monotonicity claim
\* the stores of the same size as s: each record kept or replaced, under the
\* same id, owner and stamp, by a confident yield record, an unconfident crop
\* record or a confident detailed record
Replaced(d, k) ==
    CASE k = "same" -> d
      [] k = "yield" -> YieldDoc(d._id, d.user_id,
                                 [yield |-> 1500, confidence |-> 92,
                                  model_type |-> "trained"], d.created_at)
      [] k = "crop" -> CropDoc(d._id, d.user_id,
                               [crop |-> "rice", confidence |-> 50,
                                model_type |-> "trained"], d.created_at)
      [] k = "yield_detailed" -> DetailedDoc(d._id, d.user_id, FullRequest, d.created_at)
Variants(s) ==
    {[i \in 1..Len(s) |-> Replaced(s[i], k[i])] :
        k \in [1..Len(s) -> {"same", "yield", "crop", "yield_detailed"}]}
ConfidentIn(s) == Cardinality({i \in 1..Len(s) : ConfidenceOf(s[i]) >= 70})

\* C23: for a fixed number of records the success rate, aggregate and
\* personal, does not decrease when the number of records with confidence
\* >= 0.70 grows: no store of the same size with more such records has a
\* lower rate than the one reported.
C23_RateMonotone ==
    /\ (resp.op = "get_aggregate_dashboard" /\ resp.status = 200) =>
          \A v \in Variants(predictions) :
              ConfidentIn(v) > ConfidentIn(predictions) =>
                  AggregateSuccessRate(v) >= body.success_rate
    /\ IsPersonalReply =>
          LET mine == SelectSeq(predictions, LAMBDA d :
                          /\ d.user_id = resp.args.user_id
                          /\ YearOf(d.created_at) >= YearOf(now))
          IN  \A v \in Variants(mine) :
                  ConfidentIn(v) > ConfidentIn(mine) =>
                      PersonalSuccessRate(v) >= body.statistics.success_rate

\* C24: for every owner, every year and every stored mix of basic and
\* detailed records, yearly analytics succeeds and its total_predictions is
\* the number of the owner's records stamped from Jan 1 of the year up to,
\* not including, Jan 1 of the next year, which is also the sum of the 12
\* monthly totals and the sum of the four quarterly_breakdown values.
C24_YearlyTotals ==
    (resp.op = "get_yearly_analytics" /\ Numeric(resp.args.year)) =>
        /\ resp.status = 200
        /\ LET inYear == StampedIn(resp.args.user_id, DateTime(body.year, 1),
                                   DateTime(body.year + 1, 1))
               months == [m \in 1..12 |-> body.monthly_breakdown[m].total]
               quarters == <<body.quarterly_breakdown.Q1, body.quarterly_breakdown.Q2,
                             body.quarterly_breakdown.Q3, body.quarterly_breakdown.Q4>>
           IN  /\ body.summary.total_predictions = Cardinality(inYear)
               /\ SumSeq(months) = Cardinality(inYear)
               /\ SumSeq(quarters) = Cardinality(inYear)

\* C25: the paginated listing called without a kind filter succeeds for
\* every owner and every page whatever kinds of record the history holds:
\* it reports as total the number of records the caller owns, detailed ones
\* included, and the page it returns is made of records the caller owns.
C25_ListingOfEveryKind ==
    (/\ resp.op = "get_user_predictions"
     /\ resp.args.type = "all"
     /\ resp.args.page >= 1
     /\ resp.args.limit >= 1) =>
        /\ resp.status = 200
        /\ body.pagination.total = Cardinality(OwnedIndices(resp.args.user_id))
        /\ \A i \in 1..Len(body.predictions) :
               \E j \in OwnedIndices(resp.args.user_id) :
                   predictions[j]._id = body.predictions[i].id

\* ---- vocabulary of the save and load claims
\* the save requests of user u that stopped between insert and increment
Unfinished(u) ==
    {r \in Requests : inflight[r].user_id = u /\ inflight[r].pc \in {"inserted", "failed"}}

\* C26: a save inserts the record and then increments the owner's counter,
\* so in every state an existing user's total_predictions is at most the
\* number of records the user owns, and equals it once none of the user's
\* save requests is stopped between its two steps.
C26_CounterFollowsRecords ==
    \A u \in DOMAIN users :
        /\ users[u].total_predictions <= Cardinality(OwnedIndices(u))
        /\ Unfinished(u) = {} =>
               users[u].total_predictions = Cardinality(OwnedIndices(u))

\* a save of an existing user completed and another failed after its insert:
\* the counter is one behind the records
C26_Witness ==
    \E u \in DOMAIN users, r \in Requests :
        /\ inflight[r].user_id = u
        /\ inflight[r].pc = "failed"
        /\ users[u].total_predictions >= 1
        /\ users[u].total_predictions < Cardinality(OwnedIndices(u))

\* C27: the models are loaded once per process: whatever the interleaving of
\* the prediction requests that start while models_loaded is false,
\* load_models runs at most one time.
C27_LoadedOnce == loads <= 1

\* C28: for every owner, year and quarter q in 1..4 the quarterly analytics
\* total_predictions equals the Qq entry of the quarterly_breakdown that
\* yearly analytics gives for the same year over the same store.
C28_QuarterMatchesYear ==
    (resp.op = "get_quarterly_analytics" /\ resp.status = 200) =>
        LET yearly == YearlyReply(resp.args.user_id, resp.args.year)
            q == body.quarter
        IN  /\ yearly.status = 200
            /\ body.total_predictions =
                   (CASE q = 1 -> yearly.body.quarterly_breakdown.Q1
                      [] q = 2 -> yearly.body.quarterly_breakdown.Q2
                      [] q = 3 -> yearly.body.quarterly_breakdown.Q3
                      [] q = 4 -> yearly.body.quarterly_breakdown.Q4)

\* ---- vocabulary of the isolation claim
RecordsOf(u) == SelectSeq(predictions, LAMBDA d : d.user_id = u)
\* a step that changes the stored accounts or records, but leaves user u's
\* account, u's records and the clock as they were
KeepsDataOf(u) ==
    /\ <<users, tokens, predictions>>' # <<users, tokens, predictions>>
    /\ (u \in tokens) = (u \in tokens')
    /\ (u \in DOMAIN users) = (u \in DOMAIN users')
    /\ u \in DOMAIN users => users'[u] = users[u]
    /\ RecordsOf(u)' = RecordsOf(u)
    /\ now' = now
AggregateFields ==
    {"type", "total_predictions", "avg_yield", "success_rate", "active_farmers"}

\* C29: what an owner is answered depends on that owner's data only: a step
\* that changes other users and their records but not user A's leaves A's
\* personal dashboard, filter result, paginated listing, yearly and
\* quarterly analytics as they were, and an aggregate dashboard answer has
\* the aggregate fields only, none of them copied from one user's record.
C29_OwnerIsolation ==
    [][/\ \A A \in tokens :
              KeepsDataOf(A) =>
                  /\ PersonalReplies(A)' = PersonalReplies(A)
                  /\ FilterReply(A, NoFilter)' = FilterReply(A, NoFilter)
                  /\ ListingReply(A, 1, MaxLimit, "all")' = ListingReply(A, 1, MaxLimit, "all")
                  /\ YearlyReply(A, None)' = YearlyReply(A, None)
                  /\ QuarterlyReply(A, None, None)' = QuarterlyReply(A, None, None)
       /\ (resp'.op = "get_aggregate_dashboard" /\ resp'.status = 200) =>
              DOMAIN resp'.body = AggregateFields]_vars

\* user 1 is answered a personal dashboard over a store in which user 1 and
\* user 2 each own a record
C29_Witness ==
    /\ IsPersonalReply
    /\ resp.args.user_id = 1
    /\ OwnedIndices(1) # {}
    /\ OwnedIndices(2) # {}

\* ---- vocabulary of the schema claim
IsDetailed(i) == predictions[i].prediction_type = "yield_detailed"
\* the records whose basic output mapping holds a confidence >= 0.70
BasicConfident(I) ==
    {i \in I : /\ "output_data" \in DOMAIN predictions[i]
               /\ GetRaw(predictions[i].output_data, "confidence", 0) >= 70}
WithoutRecord(s, id) == SelectSeq(s, LAMBDA d : d._id # id)

\* C30: in the aggregate and in the personal success rate a detailed record
\* is counted in the total but never in the success count, whatever
\* confidence its result mapping holds: the rate is the share of records
\* whose basic output mapping holds a confidence >= 0.70, and the store
\* after a detailed save has no higher rate than the store before it.
C30_DetailedNeverSucceeds ==
    /\ (resp.op = "get_aggregate_dashboard" /\ resp.status = 200) =>
          /\ body.total_predictions = Cardinality(Indices)
          /\ Indices = {} => body.success_rate = 0
          /\ Indices # {} =>
                 NearestRatio(body.success_rate, 100,
                              Cardinality(BasicConfident(Indices)), Cardinality(Indices))
    /\ IsPersonalReply =>
          LET year == ThisYear(resp.args.user_id)
          IN  /\ body.year_summary.total_predictions = Cardinality(year)
              /\ year = {} => body.statistics.success_rate = 0
              /\ year # {} =>
                     NearestRatio(body.statistics.success_rate, 1000,
                                  Cardinality(BasicConfident(year)), Cardinality(year))
    /\ (resp.op = "save_detailed_prediction" /\ resp.status = 201) =>
          LET mine == SelectSeq(predictions, LAMBDA d :
                          /\ d.user_id = resp.args.user_id
                          /\ YearOf(d.created_at) >= YearOf(now))
          IN  /\ AggregateSuccessRate(predictions) <=
                     AggregateSuccessRate(WithoutRecord(predictions, body.prediction_id))
              /\ PersonalSuccessRate(mine) <=
                     PersonalSuccessRate(WithoutRecord(mine, body.prediction_id))

\* a personal dashboard over one confident basic record and one detailed
\* record of confidence >= 0.70: two records, success rate 50.0
C30_Witness ==
    /\ IsPersonalReply
    /\ body.year_summary.total_predictions = 2
    /\ body.statistics.success_rate = 500
    /\ \E i \in ThisYear(resp.args.user_id) :
           IsDetailed(i) /\ ConfidenceOf(predictions[i]) >= 70

====
